---- MODULE Spec2Model ----
(***************************************************************************)
(* escolor: a command-line tool that turns styling options into ANSI SGR   *)
(* escape sequences.  The model follows src/escolor.py: the option         *)
(* tokenizer parse_options, the colour resolver get_color, and the         *)
(* module-level loop that builds output_string token by token and prints   *)
(* it.                                                                     *)
(*                                                                         *)
(* A string is a sequence of characters and a character is a one-element   *)
(* TLA+ string.  Three characters are written by name: ESC (\x1b), BS (the *)
(* backslash) and NL (the newline).  Indices i keep the source's 0-based   *)
(* values, so the source's xs[i] is xs[i + 1] here.                        *)
(***************************************************************************)
EXTENDS Integers, Sequences, FiniteSets, TLC

ESC == "ESC"
BS == "\\"
NL == "\n"

(***************************************************************************)
(* String primitives of the Python runtime used by the source.             *)
(***************************************************************************)
Range(s) == { s[k] : k \in 1..Len(s) }

Front(s) == SubSeq(s, 1, Len(s) - 1)

Last(s) == s[Len(s)]

\* the slice s[lo:hi] for 0 <= lo, out-of-range ends clipped as Python does
slice(s, lo, hi) ==
    LET h == IF hi > Len(s) THEN Len(s) ELSE hi
    IN  IF lo >= h THEN <<>> ELSE SubSeq(s, lo + 1, h)

EndsWith(s, suffix) ==
    /\ Len(suffix) <= Len(s)
    /\ SubSeq(s, Len(s) - Len(suffix) + 1, Len(s)) = suffix

\* str.rstrip(chars): drops every trailing character that is in chars.
RECURSIVE rstrip(_, _)
rstrip(s, chars) ==
    IF s # <<>> /\ Last(s) \in chars THEN rstrip(Front(s), chars) ELSE s

\* str.lstrip(chars): drops every leading character that is in chars.
RECURSIVE lstrip(_, _)
lstrip(s, chars) ==
    IF s # <<>> /\ Head(s) \in chars THEN lstrip(Tail(s), chars) ELSE s

\* str.strip(chars)
strip(s, chars) == lstrip(rstrip(s, chars), chars)

\* str.split(sep) for a one-character separator: the list of fields.
RECURSIVE split(_, _)
split(s, sep) ==
    IF \E k \in 1..Len(s) : s[k] = sep
    THEN LET k == CHOOSE j \in 1..Len(s) :
                      s[j] = sep /\ \A h \in 1..(j - 1) : s[h] # sep
         IN  <<SubSeq(s, 1, k - 1)>> \o split(SubSeq(s, k + 1, Len(s)), sep)
    ELSE <<s>>

LowerLetters ==
    <<"a", "b", "c", "d", "e", "f", "g", "h", "i", "j", "k", "l", "m",
      "n", "o", "p", "q", "r", "s", "t", "u", "v", "w", "x", "y", "z">>

UpperLetters ==
    <<"A", "B", "C", "D", "E", "F", "G", "H", "I", "J", "K", "L", "M",
      "N", "O", "P", "Q", "R", "S", "T", "U", "V", "W", "X", "Y", "Z">>

\* str.upper()
upper(s) ==
    [ k \in 1..Len(s) |->
        IF \E j \in 1..Len(LowerLetters) : LowerLetters[j] = s[k]
        THEN UpperLetters[CHOOSE j \in 1..Len(LowerLetters) : LowerLetters[j] = s[k]]
        ELSE s[k] ]

HexDigits ==
    <<"0", "1", "2", "3", "4", "5", "6", "7", "8", "9",
      "A", "B", "C", "D", "E", "F">>

DecDigits == SubSeq(HexDigits, 1, 10)

IsDigit(c) == c \in Range(DecDigits)

IsHexDigit(c) == c \in Range(HexDigits)

DigitValue(c) == (CHOOSE j \in 1..Len(HexDigits) : HexDigits[j] = c) - 1

\* int(s) and int(s, 16): surrounding whitespace is ignored, then the digits
\* are read most significant first.
RECURSIVE DigitsValue(_, _)
DigitsValue(s, base) ==
    IF s = <<>> THEN 0
    ELSE DigitsValue(Front(s), base) * base + DigitValue(Last(s))

int(s, base) == DigitsValue(strip(s, {NL, " "}), base)

\* str(n) for n >= 0, as an f-string formats an int.
RECURSIVE str(_)
str(n) ==
    IF n < 10 THEN <<DecDigits[n + 1]>>
    ELSE str(n \div 10) \o <<DecDigits[(n % 10) + 1]>>

\* re.search(r"^...$", s): "$" matches at the end of the string and also just
\* before a newline that is the last character, so the pattern proper may
\* cover the whole string or the string without one trailing newline.
DollarCores(s) ==
    {s} \cup (IF s # <<>> /\ Last(s) = NL THEN {Front(s)} ELSE {})

\* \d{1,3}
IsDigits1to3(s) == Len(s) \in 1..3 /\ \A k \in 1..Len(s) : IsDigit(s[k])

\* ^\d{1,3}$
Match8Bit(s) == \E c \in DollarCores(s) : IsDigits1to3(c)

\* ^#?[\dA-F]{6}$
MatchHex(s) ==
    \E c \in DollarCores(s) :
        LET d == IF c # <<>> /\ Head(c) = "#" THEN Tail(c) ELSE c
        IN  Len(d) = 6 /\ \A k \in 1..6 : IsHexDigit(d[k])

\* ^\d{1,3},\d{1,3},\d{1,3}$
MatchRGB(s) ==
    \E c \in DollarCores(s) :
        LET f == split(c, ",")
        IN  Len(f) = 3 /\ \A k \in 1..3 : IsDigits1to3(f[k])

(***************************************************************************)
(* get_color: the colour resolver.  The empty string means "invalid".      *)
(***************************************************************************)
NamedColors ==
    { [name |-> <<"B", "L", "A", "C", "K">>, base |-> 30],
      [name |-> <<"R", "E", "D">>, base |-> 31],
      [name |-> <<"G", "R", "E", "E", "N">>, base |-> 32],
      [name |-> <<"Y", "E", "L", "L", "O", "W">>, base |-> 33],
      [name |-> <<"B", "L", "U", "E">>, base |-> 34],
      [name |-> <<"M", "A", "G", "E", "N", "T", "A">>, base |-> 35],
      [name |-> <<"C", "Y", "A", "N">>, base |-> 36],
      [name |-> <<"W", "H", "I", "T", "E">>, base |-> 37],
      [name |-> <<"B", "B", "L", "A", "C", "K">>, base |-> 90],
      [name |-> <<"B", "R", "E", "D">>, base |-> 91],
      [name |-> <<"B", "G", "R", "E", "E", "N">>, base |-> 92],
      [name |-> <<"B", "Y", "E", "L", "L", "O", "W">>, base |-> 93],
      [name |-> <<"B", "B", "L", "U", "E">>, base |-> 94],
      [name |-> <<"B", "M", "A", "G", "E", "N", "T", "A">>, base |-> 95],
      [name |-> <<"B", "C", "Y", "A", "N">>, base |-> 96],
      [name |-> <<"B", "W", "H", "I", "T", "E">>, base |-> 97] }

\* (a variant with the bound off by one)
InByte_inclusive(n) == n <= 256

\* "int(color) < 256" and "r < 256 and g < 256 and b < 256"
InByte(n) == n < 256

\* the hex branch: color.lstrip("#"), then one byte per pair of digits
HexChannels(color) ==
    LET h == lstrip(color, {"#"})
    IN  [ k \in 1..3 |->
            LET j == 2 * (k - 1)
            IN  int(slice(h, j, j + 1), 16) * 16 + int(slice(h, j + 1, j + 2), 16) ]

\* f"{background+38};2;{r};{g};{b}"
TrueColor(background, ch) ==
    str(background + 38) \o <<";", "2", ";">> \o str(ch[1]) \o <<";">>
        \o str(ch[2]) \o <<";">> \o str(ch[3])

get_color(color0, background0) ==
    LET color == upper(color0)
        background == IF background0 # 0 THEN 10 ELSE 0
    IN  IF \E n \in NamedColors : n.name = color
        THEN str(background + (CHOOSE n \in NamedColors : n.name = color).base)
        ELSE IF Match8Bit(color) /\ InByte(int(color, 10))
        THEN str(background + 38) \o <<";", "5", ";">> \o color
        ELSE IF MatchHex(color)
        THEN TrueColor(background, HexChannels(color))
        ELSE IF MatchRGB(color)
        THEN LET f == split(color, ",")
                 ch == [ k \in 1..3 |-> int(f[k], 10) ]
             IN  IF \A k \in 1..3 : InByte(ch[k])
                 THEN TrueColor(background, ch)
                 ELSE <<>>
        ELSE <<>>

(***************************************************************************)
(* parse_options: the option tokenizer.  awv lists the short options that  *)
(* take a value, then, after a ':', the ':'-separated long ones.           *)
(***************************************************************************)
\* "while i < len(awv) and awv[i] != ':': swv += awv[i]"
RECURSIVE ShortsWithValues(_)
ShortsWithValues(awv) ==
    IF awv # <<>> /\ Head(awv) # ":"
    THEN <<Head(awv)>> \o ShortsWithValues(Tail(awv))
    ELSE <<>>

\* "if i + 1 < len(awv): lwv = awv[i+1:].split(sep=':')"
LongsWithValues(awv) ==
    LET i == Len(ShortsWithValues(awv))
    IN  IF i + 1 < Len(awv)
        THEN split(slice(awv, i + 1, Len(awv)), ":")
        ELSE <<>>

\* (a variant that reads a value without moving on)
ConsumeNext_stay(i) == i

\* "i += 1" in front of reading a value: the value is the next raw argument
ConsumeNext(i) == i + 1

\* "parsed_args.append(argv[i]) if i < len(argv) else parsed_args.append('')"
ValueAt(argv, i) == IF i < Len(argv) THEN argv[i + 1] ELSE <<>>

\* "for option in arg[1:]": one "-X" per character, a value after each option
\* that is in swv.  Yields the advanced index and the grown list.
RECURSIVE ExpandShorts(_, _, _, _, _)
ExpandShorts(argv, swv, options, i, parsed) ==
    IF options = <<>> THEN [i |-> i, parsed_args |-> parsed]
    ELSE LET option == Head(options)
             flagged == Append(parsed, <<"-", option>>)
         IN  IF option \in Range(swv)
             THEN ExpandShorts(argv, swv, Tail(options), ConsumeNext(i),
                               Append(flagged, ValueAt(argv, ConsumeNext(i))))
             ELSE ExpandShorts(argv, swv, Tail(options), i, flagged)

\* "while i < len(argv)"
RECURSIVE ParseFrom(_, _, _, _, _)
ParseFrom(argv, swv, lwv, i, parsed) ==
    IF ~(i < Len(argv)) THEN parsed
    ELSE LET arg == argv[i + 1]
         IN  IF slice(arg, 0, 1) = <<"-">> /\ Len(arg) > 1
             THEN IF slice(arg, 1, 2) = <<"-">> /\ Len(arg) > 2
                  THEN IF slice(arg, 2, Len(arg)) \in Range(lwv)
                       THEN ParseFrom(argv, swv, lwv, ConsumeNext(i) + 1,
                                Append(Append(parsed, arg),
                                       ValueAt(argv, ConsumeNext(i))))
                       ELSE ParseFrom(argv, swv, lwv, i + 1, Append(parsed, arg))
                  ELSE LET r == ExpandShorts(argv, swv, slice(arg, 1, Len(arg)), i, parsed)
                       IN  ParseFrom(argv, swv, lwv, r.i + 1, r.parsed_args)
             ELSE ParseFrom(argv, swv, lwv, i + 1, Append(parsed, arg))

parse_options(argv, awv) ==
    ParseFrom(argv, ShortsWithValues(awv), LongsWithValues(awv), 0, <<>>)

(***************************************************************************)
(* The option table of the main loop.                                      *)
(***************************************************************************)
HelpTokens == { <<"-", "h">>, <<"-", "-", "h", "e", "l", "p">> }

VersionTokens == { <<"-", "v">>, <<"-", "-", "v", "e", "r", "s", "i", "o", "n">> }

EscapeTokens == { <<"-", "e">>, <<"-", "-", "e", "s", "c", "a", "p", "e">> }

NewlineTokens == { <<"-", "n">>, <<"-", "-", "n", "e", "w", "l", "i", "n", "e">> }

NoEscapeTokens ==
    { <<"-", "E">>, <<"-", "-", "n", "o", "-", "e", "s", "c", "a", "p", "e">> }

NoNewlineTokens ==
    { <<"-", "N">>, <<"-", "-", "n", "o", "-", "n", "e", "w", "l", "i", "n", "e">> }

ToggleTokens ==
    EscapeTokens \cup NewlineTokens \cup NoEscapeTokens \cup NoNewlineTokens

ColorTokens == { <<"-", "c">>, <<"-", "-", "c", "o", "l", "o", "r">> }

BackgroundTokens ==
    { <<"-", "g">>, <<"-", "-", "b", "a", "c", "k", "g", "r", "o", "u", "n", "d">> }

StyleTable ==
    { [short |-> <<"-", "b">>, long |-> <<"-", "-", "b", "o", "l", "d">>, code |-> <<"1">>],
      [short |-> <<"-", "i">>, long |-> <<"-", "-", "i", "t", "a", "l", "i", "c">>, code |-> <<"3">>],
      [short |-> <<"-", "u">>, long |-> <<"-", "-", "u", "n", "d", "e", "r", "l", "i", "n", "e">>, code |-> <<"4">>],
      [short |-> <<"-", "d">>, long |-> <<"-", "-", "d", "o", "u", "b", "l", "e", "-", "u", "n", "d", "e", "r", "l", "i", "n", "e">>, code |-> <<"2", "1">>],
      [short |-> <<"-", "o">>, long |-> <<"-", "-", "o", "v", "e", "r", "l", "i", "n", "e">>, code |-> <<"5", "3">>],
      [short |-> <<"-", "t">>, long |-> <<"-", "-", "c", "r", "o", "s", "s", "e", "d", "-", "o", "u", "t">>, code |-> <<"9">>],
      [short |-> <<"-", "k">>, long |-> <<"-", "-", "b", "l", "i", "n", "k">>, code |-> <<"5">>],
      [short |-> <<"-", "s">>, long |-> <<"-", "-", "s", "w", "a", "p">>, code |-> <<"7">>],
      [short |-> <<"-", "C">>, long |-> <<"-", "-", "n", "o", "-", "c", "o", "l", "o", "r">>, code |-> <<"3", "9">>],
      [short |-> <<"-", "G">>, long |-> <<"-", "-", "n", "o", "-", "b", "a", "c", "k", "g", "r", "o", "u", "n", "d">>, code |-> <<"4", "9">>],
      [short |-> <<"-", "B">>, long |-> <<"-", "-", "n", "o", "-", "b", "o", "l", "d">>, code |-> <<"2", "2">>],
      [short |-> <<"-", "I">>, long |-> <<"-", "-", "n", "o", "-", "i", "t", "a", "l", "i", "c">>, code |-> <<"2", "3">>],
      [short |-> <<"-", "U">>, long |-> <<"-", "-", "n", "o", "-", "u", "n", "d", "e", "r", "l", "i", "n", "e">>, code |-> <<"2", "4">>],
      [short |-> <<"-", "O">>, long |-> <<"-", "-", "n", "o", "-", "o", "v", "e", "r", "l", "i", "n", "e">>, code |-> <<"5", "5">>],
      [short |-> <<"-", "T">>, long |-> <<"-", "-", "n", "o", "-", "c", "r", "o", "s", "s", "e", "d", "-", "o", "u", "t">>, code |-> <<"2", "9">>],
      [short |-> <<"-", "K">>, long |-> <<"-", "-", "n", "o", "-", "b", "l", "i", "n", "k">>, code |-> <<"2", "5">>],
      [short |-> <<"-", "S">>, long |-> <<"-", "-", "n", "o", "-", "s", "w", "a", "p">>, code |-> <<"2", "7">>],
      [short |-> <<"-", "r">>, long |-> <<"-", "-", "r", "e", "s", "e", "t">>, code |-> <<"0">>] }

StyleTokens == { r.short : r \in StyleTable } \cup { r.long : r \in StyleTable }

StyleCode(tok) == (CHOOSE r \in StyleTable : tok \in {r.short, r.long}).code

OptionTokens ==
    HelpTokens \cup VersionTokens \cup ToggleTokens \cup ColorTokens
        \cup BackgroundTokens \cup StyleTokens

(***************************************************************************)
(* Fixed texts.  The usage and version texts are fixed and are kept as one *)
(* element each; so are the constant parts of the diagnostic.              *)
(***************************************************************************)
UsageText == <<"<usage text>">>

AboutText == <<"<version text>">>

\* throw_color_error's message, as print(..., file=stderr) writes it
Diagnostic(color) ==
    <<"<prog>: Invalid color given: ">>
        \o (IF color # <<>> THEN <<"'">> \o color \o <<"'">>
            ELSE <<"NO COLOR GIVEN">>)
        \o <<". See usage with -h or --help.", NL>>

\* repr(s) for the characters of the model: the quote is "'" unless the text
\* holds a "'" and no '"'; backslash, newline, ESC and the quote are escaped.
repr(s) ==
    LET quote == IF "'" \in Range(s) /\ "\"" \notin Range(s) THEN "\"" ELSE "'"
        shown(c) == IF c = BS THEN <<BS, BS>>
                    ELSE IF c = NL THEN <<BS, "n">>
                    ELSE IF c = ESC THEN <<BS, "x", "1", "b">>
                    ELSE IF c = quote THEN <<BS, c>>
                    ELSE <<c>>
        shownUpTo[k \in 0..Len(s)] ==
            IF k = 0 THEN <<>> ELSE shownUpTo[k - 1] \o shown(s[k])
    IN  <<quote>> \o shownUpTo[Len(s)] \o <<quote>>

\* (a variant that drops every leading backslash)
removeprefix_all(s) == lstrip(s, {BS})

\* str.removeprefix("\\")
removeprefix(s) == IF s # <<>> /\ Head(s) = BS THEN Tail(s) ELSE s

(***************************************************************************)
(* The program state.  st stands for a record of all of it, so that one    *)
(* iteration of the loop is an operator on states.                         *)
(***************************************************************************)
VARIABLES
    argv,           \* the raw arguments, sys.argv[1:]
    pc,             \* "parse", "loop" (at the while test) or "done" (exited)
    parsed_args,    \* the token list
    i,              \* index of the token under evaluation
    color,          \* the module-level variable color
    escape,         \* flag
    newline,        \* '\n' or ''
    output_string,  \* the buffer
    stdout,         \* what has been written to standard output
    stderr,         \* what has been written to standard error
    status          \* the exit status; meaningful once pc = "done"

vars == <<argv, pc, parsed_args, i, color, escape, newline, output_string,
          stdout, stderr, status>>

\* lines 235-242, before parse_options has run.  color is declared without a
\* value and is assigned before it is ever read; status is the status of a
\* run that reaches the end of the program.
Start(raw) ==
    [ argv |-> raw, pc |-> "parse", parsed_args |-> <<>>, i |-> 0,
      color |-> <<>>, escape |-> FALSE, newline |-> <<NL>>,
      output_string |-> <<ESC, "[">>, stdout |-> <<>>, stderr |-> <<>>,
      status |-> 0 ]

Cur ==
    [ argv |-> argv, pc |-> pc, parsed_args |-> parsed_args, i |-> i,
      color |-> color, escape |-> escape, newline |-> newline,
      output_string |-> output_string, stdout |-> stdout, stderr |-> stderr,
      status |-> status ]

Becomes(st) ==
    /\ argv' = st.argv
    /\ pc' = st.pc
    /\ parsed_args' = st.parsed_args
    /\ i' = st.i
    /\ color' = st.color
    /\ escape' = st.escape
    /\ newline' = st.newline
    /\ output_string' = st.output_string
    /\ stdout' = st.stdout
    /\ stderr' = st.stderr
    /\ status' = st.status

Token(st) == st.parsed_args[st.i + 1]

AtToken(st) == st.pc = "loop" /\ st.i < Len(st.parsed_args)

\* "i += 1" at the end of the loop body
Advance(st) == [st EXCEPT !.i = @ + 1]

\* "parsed_args: list = parse_options(argv[1:], "cg")"
Tokenize(st) ==
    [st EXCEPT !.parsed_args = parse_options(st.argv, <<"c", "g">>),
               !.pc = "loop"]

print_usage(st) ==
    [st EXCEPT !.stdout = @ \o UsageText, !.status = 0, !.pc = "done"]

print_about(st) ==
    [st EXCEPT !.stdout = @ \o AboutText, !.status = 0, !.pc = "done"]

\* (a variant that exits without a status)
throw_color_error_plain_exit(st, given) ==
    [st EXCEPT !.stderr = @ \o Diagnostic(given), !.pc = "done"]

throw_color_error(st, given) ==
    [st EXCEPT !.stderr = @ \o Diagnostic(given), !.status = 1, !.pc = "done"]

\* (a variant that prints the text and goes on to the next token)
TerminalStep_no_exit(st) ==
    Advance([st EXCEPT !.stdout = @ \o (IF Token(st) \in HelpTokens
                                         THEN UsageText ELSE AboutText)])

\* case '-h' | "--help", case '-v' | "--version"
TerminalStep(st) ==
    IF Token(st) \in HelpTokens THEN print_usage(st) ELSE print_about(st)

\* case '-e', '-n', '-E', '-N' and their long forms
ToggleStep(st) ==
    LET tok == Token(st)
    IN  Advance(
          IF tok \in EscapeTokens THEN [st EXCEPT !.escape = TRUE]
          ELSE IF tok \in NewlineTokens THEN [st EXCEPT !.newline = <<NL>>]
          ELSE IF tok \in NoEscapeTokens THEN [st EXCEPT !.escape = FALSE]
          ELSE [st EXCEPT !.newline = <<>>])

\* the fixed-code cases: output_string += "<code>;"
StyleStep(st) ==
    Advance([st EXCEPT !.output_string = @ \o StyleCode(Token(st)) \o <<";">>])

\* (a variant in which only the short form "-g" selects the background)
ColorStep_short_only(st) ==
    LET background == IF Token(st) = <<"-", "g">> THEN 1 ELSE 0
    IN  IF st.i < Len(st.parsed_args) - 1
        THEN LET given == st.parsed_args[st.i + 2]
                 got == get_color(given, background)
                 s1 == [st EXCEPT !.color = got]
             IN  IF got = <<>>
                 THEN throw_color_error(s1, given)
                 ELSE Advance([s1 EXCEPT !.output_string = @ \o got \o <<";">>,
                                         !.i = @ + 1])
        ELSE throw_color_error(st, <<>>)

\* case '-c' | "--color" (background = 0), case '-g' | "--background" (1)
ColorStep(st) ==
    LET background == IF Token(st) \in BackgroundTokens THEN 1 ELSE 0
    IN  IF st.i < Len(st.parsed_args) - 1
        THEN LET given == st.parsed_args[st.i + 2]
                 got == get_color(given, background)
                 s1 == [st EXCEPT !.color = got]
             IN  IF got = <<>>
                 THEN throw_color_error(s1, given)
                 ELSE Advance([s1 EXCEPT !.output_string = @ \o got \o <<";">>,
                                         !.i = @ + 1])
        ELSE throw_color_error(st, <<>>)

\* case _: close or discard the open prefix, then the text, then a new prefix
ClosePrefix(buffer) ==
    IF Last(buffer) = ";"
    THEN rstrip(buffer, {";"}) \o <<"m">>
    ELSE rstrip(buffer, {ESC, "["})

\* (a variant that does not reopen the prefix after the text)
LiteralStep_no_reopen(st) ==
    LET text == removeprefix(Token(st))
    IN  Advance([st EXCEPT
                   !.parsed_args[st.i + 1] = text,
                   !.output_string = ClosePrefix(@) \o text])

LiteralStep(st) ==
    LET text == removeprefix(Token(st))
    IN  Advance([st EXCEPT
                   !.parsed_args[st.i + 1] = text,
                   !.output_string = ClosePrefix(@) \o text \o <<ESC, "[">>])

\* (a variant that prints the buffer without the closing "m")
FinalText_unclosed(st) ==
    LET closed == rstrip(st.output_string, {";"})
    IN  IF st.escape THEN closed
        ELSE LET shown == repr(closed)
             IN  IF Head(shown) = "'" THEN strip(shown, {"'"})
                 ELSE IF Head(shown) = "\"" THEN strip(shown, {"\""})
                 ELSE shown

\* lines 306-315: the final print
FinalText(st) ==
    LET closed == rstrip(st.output_string, {";"}) \o <<"m">>
    IN  IF st.escape THEN closed
        ELSE LET shown == repr(closed)
             IN  IF Head(shown) = "'" THEN strip(shown, {"'"})
                 ELSE IF Head(shown) = "\"" THEN strip(shown, {"\""})
                 ELSE shown

Finalize(st) ==
    [st EXCEPT !.stdout = @ \o FinalText(st) \o st.newline, !.pc = "done"]

\* one step of the program from any state that has not exited
LoopBody(st) ==
    IF st.pc = "parse" THEN Tokenize(st)
    ELSE IF ~(st.i < Len(st.parsed_args)) THEN Finalize(st)
    ELSE IF Token(st) \in HelpTokens \cup VersionTokens THEN TerminalStep(st)
    ELSE IF Token(st) \in ToggleTokens THEN ToggleStep(st)
    ELSE IF Token(st) \in ColorTokens \cup BackgroundTokens THEN ColorStep(st)
    ELSE IF Token(st) \in StyleTokens THEN StyleStep(st)
    ELSE LiteralStep(st)

\* the whole run on given raw arguments: the state at exit
RECURSIVE RunFrom(_)
RunFrom(st) == IF st.pc = "done" THEN st ELSE RunFrom(LoopBody(st))

Run(raw) == RunFrom(Start(raw))

(***************************************************************************)
(* Actions: one per step of the program.                                   *)
(***************************************************************************)
Parse == pc = "parse" /\ Becomes(Tokenize(Cur))

Terminal ==
    /\ AtToken(Cur)
    /\ Token(Cur) \in HelpTokens \cup VersionTokens
    /\ Becomes(TerminalStep(Cur))

Toggle ==
    /\ AtToken(Cur)
    /\ Token(Cur) \in ToggleTokens
    /\ Becomes(ToggleStep(Cur))

Color ==
    /\ AtToken(Cur)
    /\ Token(Cur) \in ColorTokens \cup BackgroundTokens
    /\ Becomes(ColorStep(Cur))

Style ==
    /\ AtToken(Cur)
    /\ Token(Cur) \in StyleTokens
    /\ Becomes(StyleStep(Cur))

Literal ==
    /\ AtToken(Cur)
    /\ Token(Cur) \notin OptionTokens
    /\ Becomes(LiteralStep(Cur))

Finish ==
    /\ pc = "loop"
    /\ ~(i < Len(parsed_args))
    /\ Becomes(Finalize(Cur))

Next == Parse \/ Terminal \/ Toggle \/ Color \/ Style \/ Literal \/ Finish

(***************************************************************************)
(* Specifications.  A run is fixed by its raw arguments; each              *)
(* specification draws them from its own finite family.                    *)
(***************************************************************************)
MaxArgs == 4
MaxTokArgs == 3
MaxLitArgs == 3
MaxRest == 2
MaxDigits == 6

SeqsUpTo(S, n) == UNION { [1..k -> S] : k \in 0..n }

Is(st) ==
    /\ argv = st.argv
    /\ pc = st.pc
    /\ parsed_args = st.parsed_args
    /\ i = st.i
    /\ color = st.color
    /\ escape = st.escape
    /\ newline = st.newline
    /\ output_string = st.output_string
    /\ stdout = st.stdout
    /\ stderr = st.stderr
    /\ status = st.status

InitWith(raws) == \E raw \in raws : Is(Start(raw))

a_ecg == <<"-", "e", "c", "g">>
a_cg == <<"-", "c", "g">>
a_gc == <<"-", "g", "c">>
a_c == <<"-", "c">>
a_g == <<"-", "g">>
a_h == <<"-", "h">>
a_b == <<"-", "b">>
a_e == <<"-", "e">>
a_eb == <<"-", "e", "b">>
a_ebc == <<"-", "e", "b", "c">>
a_xy == <<"-", "x", "y">>
a_color == <<"-", "-", "c", "o", "l", "o", "r">>
a_background == <<"-", "-", "b", "a", "c", "k", "g", "r", "o", "u", "n", "d">>
a_version == <<"-", "-", "v", "e", "r", "s", "i", "o", "n">>
a_not_an_option ==
    <<"-", "-", "t", "h", "i", "s", "-", "i", "s", "-", "n", "o", "t", "-",
      "a", "n", "-", "o", "p", "t", "i", "o", "n">>
a_RED == <<"R", "E", "D">>
a_BLUE == <<"B", "L", "U", "E">>
a_blue == <<"b", "l", "u", "e">>
a_HELLO_WORLD == <<"H", "E", "L", "L", "O", " ", "W", "O", "R", "L", "D">>
a_HI == <<"H", "I">>
a_bracket == <<"a", "[">>
a_esc_E == <<BS, "-", "E">>
a_esc_esc_HELLO == <<BS, BS, "H", "E", "L", "L", "O">>
a_hex == <<"#", "2", "9", "8", "6", "c", "c">>
a_rgb == <<"1", ",", "2", ",", "3">>
a_007 == <<"0", "0", "7">>
a_256 == <<"2", "5", "6">>
a_5nl == <<"5", NL>>

\* the builder: colours, styles, literals, help and version in any order
MainPool == { a_ecg, a_RED, a_BLUE, a_HELLO_WORLD, a_h, a_version, a_color, a_b }

Init == InitWith(SeqsUpTo(MainPool, MaxArgs))

Spec == Init /\ [][Next]_vars

\* the tokenizer: bundles with and without value-taking letters
TokPool == { a_cg, a_gc, a_RED, a_BLUE, a_xy, a_not_an_option, a_eb, a_h }

InitTok == InitWith(SeqsUpTo(TokPool, MaxTokArgs))

SpecTok == InitTok /\ [][Next]_vars

\* literals: texts that end in "[" or start with backslashes
LitPool == { a_bracket, a_esc_E, a_esc_esc_HELLO, a_HI, a_ebc, a_RED, a_h }

InitLit == InitWith(SeqsUpTo(LitPool, MaxLitArgs))

SpecLit == InitLit /\ [][Next]_vars

\* the resolver on digit strings: every string of one to three digits, longer
\* ones over a few digits, and some with a trailing newline
SmallDigits == {"0", "2", "5"}

DigitStrings ==
    UNION { [1..n -> Range(DecDigits)] : n \in 1..3 }
        \cup UNION { [1..n -> SmallDigits] : n \in 4..MaxDigits }

NewlineStrings == { Append(d, NL) : d \in UNION { [1..n -> SmallDigits] : n \in 1..2 } }

ColorRuns ==
    { <<f, d>> : f \in {a_c, a_g}, d \in DigitStrings \cup NewlineStrings }
        \cup { <<a_eb, a_c, d, a_HI>> : d \in NewlineStrings }
        \cup { <<a_eb, a_RED, a_h>> }

InitColor == InitWith(ColorRuns)

SpecColor == InitColor /\ [][Next]_vars

\* "-cg v1 v2" followed by further arguments
ValuePool == { a_RED, a_blue, a_007, a_hex, a_rgb, a_5nl, a_256 }

RestPool == { a_HELLO_WORLD, a_eb, a_h, a_esc_E }

EqRuns ==
    { <<a_cg, v1, v2>> \o rest :
        v1 \in ValuePool, v2 \in ValuePool, rest \in SeqsUpTo(RestPool, MaxRest) }

InitEq == InitWith(EqRuns)

SpecEq == InitEq /\ [][Next]_vars

(***************************************************************************)
(* Reference notions used to state the properties.  They are written from  *)
(* the raw arguments, independently of the loop above.                     *)
(***************************************************************************)
\* the token list as the tokenizer left it (the loop rewrites literals in place)
Tokens == parse_options(argv, <<"c", "g">>)

Contains(s, sub) ==
    \E k \in 0..(Len(s) - Len(sub)) : SubSeq(s, k + 1, k + Len(sub)) = sub

\* a raw argument that is a group of short letters
IsBundle(arg) ==
    /\ Len(arg) > 1
    /\ arg[1] = "-"
    /\ ~(Len(arg) > 2 /\ arg[2] = "-")

\* the expansion the tokenizer is to compute, as a stream transformation:
\* letters of a bundle become "-X" tokens, and each "c" or "g" takes the next
\* raw argument still unread (or the empty string) as its value
RECURSIVE Expand(_), ExpandLetters(_, _)
Expand(raw) ==
    IF raw = <<>> THEN <<>>
    ELSE IF IsBundle(Head(raw)) THEN ExpandLetters(Tail(Head(raw)), Tail(raw))
    ELSE <<Head(raw)>> \o Expand(Tail(raw))
ExpandLetters(letters, rest) ==
    IF letters = <<>> THEN Expand(rest)
    ELSE IF Head(letters) \in {"c", "g"}
    THEN << <<"-", Head(letters)>>, IF rest = <<>> THEN <<>> ELSE Head(rest) >>
            \o ExpandLetters(Tail(letters), IF rest = <<>> THEN <<>> ELSE Tail(rest))
    ELSE << <<"-", Head(letters)>> >> \o ExpandLetters(Tail(letters), rest)

\* how each token of T is used when tokens are evaluated left to right
KindOf(tok) ==
    IF tok \in HelpTokens \cup VersionTokens THEN "terminal"
    ELSE IF tok \in ToggleTokens THEN "toggle"
    ELSE IF tok \in ColorTokens \cup BackgroundTokens THEN "color"
    ELSE IF tok \in StyleTokens THEN "style"
    ELSE "literal"

RECURSIVE KindsFrom(_, _)
KindsFrom(T, k) ==
    IF k > Len(T) THEN <<>>
    ELSE IF KindOf(T[k]) = "color" /\ k < Len(T)
    THEN <<"color", "value">> \o KindsFrom(T, k + 2)
    ELSE <<KindOf(T[k])>> \o KindsFrom(T, k + 1)

Kinds == KindsFrom(Tokens, 1)

\* the text a literal token stands for
TextOf(tok) == IF tok # <<>> /\ tok[1] = BS THEN Tail(tok) ELSE tok

\* the run ended by printing the buffer (not by help, version or an error)
Printed == pc = "done" /\ status = 0 /\ stdout \notin {UsageText, AboutText}

\* the first terminating event met when T is evaluated from token k on
RECURSIVE Verdict(_, _)
Verdict(T, k) ==
    IF k > Len(T) THEN [what |-> "print", at |-> k]
    ELSE IF T[k] \in HelpTokens THEN [what |-> "help", at |-> k]
    ELSE IF T[k] \in VersionTokens THEN [what |-> "version", at |-> k]
    ELSE IF KindOf(T[k]) = "color"
    THEN IF k = Len(T) \/ get_color(T[k + 1], 0) = <<>>
         THEN [what |-> "error", at |-> k]
         ELSE Verdict(T, k + 2)
    ELSE Verdict(T, k + 1)

(***************************************************************************)
(* C1                                                                      *)
(***************************************************************************)
\* C1: with value-taking short flags {c, g} the tokenizer turns every bundle
\* into one "-X" token per letter, in order, and puts after each "-c" or "-g"
\* exactly one value token: the next raw argument not yet consumed, verbatim,
\* or the empty string when none is left.  ['-cg','RED','BLUE'] gives
\* ['-c','RED','-g','BLUE'] and ['-gc','BLUE','RED'] gives
\* ['-g','BLUE','-c','RED'].
C1_Tokenizer ==
    (pc = "loop" /\ i = 0) =>
        /\ parsed_args = Expand(argv)
        /\ argv = <<a_cg, a_RED, a_BLUE>> => parsed_args = <<a_c, a_RED, a_g, a_BLUE>>
        /\ argv = <<a_gc, a_BLUE, a_RED>> => parsed_args = <<a_g, a_BLUE, a_c, a_RED>>
        /\ argv = <<a_cg, a_RED>> => parsed_args = <<a_c, a_RED, a_g, <<>> >>

C1_Witness ==
    /\ pc = "loop" /\ i = 0
    /\ argv = <<a_gc, a_BLUE, a_RED>>
    /\ parsed_args = <<a_g, a_BLUE, a_c, a_RED>>

(***************************************************************************)
(* C2                                                                      *)
(***************************************************************************)
\* what a run shows to the outside, and the buffer and flags behind it
Outcome(st) ==
    <<st.stdout, st.stderr, st.status, st.output_string, st.escape, st.newline>>

\* C2: for colour values v1, v2 the resolver accepts and any further
\* arguments, "--color v1 --background v2 ...", "-c v1 -g v2 ..." and
\* "-cg v1 v2 ..." end with the same output, the same buffer, the same
\* escape and newline flags and the same exit status.
C2_SameOutput ==
    ( /\ pc = "done"
      /\ Len(argv) >= 3
      /\ argv[1] = a_cg
      /\ get_color(argv[2], 0) # <<>>
      /\ get_color(argv[3], 1) # <<>> ) =>
        LET rest == SubSeq(argv, 4, Len(argv))
        IN  /\ Outcome(Cur)
                 = Outcome(Run(<<a_color, argv[2], a_background, argv[3]>> \o rest))
            /\ Outcome(Cur) = Outcome(Run(<<a_c, argv[2], a_g, argv[3]>> \o rest))

C2_Witness ==
    /\ pc = "done"
    /\ argv = <<a_cg, a_RED, a_hex, a_HELLO_WORLD>>
    /\ status = 0
    /\ Contains(stdout, a_HELLO_WORLD)

(***************************************************************************)
(* C3                                                                      *)
(***************************************************************************)
\* C3: when a colour flag is evaluated and its value is absent, empty or
\* rejected by the resolver, the run ends with status 1, a diagnostic on
\* standard error that names the value (or says that no colour was given when
\* it is absent or empty), and nothing on standard output, whatever was
\* processed before.
C3_ColorError ==
    [][ ( /\ pc = "loop"
          /\ i < Len(parsed_args)
          /\ parsed_args[i + 1] \in ColorTokens \cup BackgroundTokens
          /\ \/ i + 1 = Len(parsed_args)
             \/ get_color(parsed_args[i + 2], 0) = <<>> ) =>
        /\ pc' = "done"
        /\ status' = 1
        /\ stdout' = <<>>
        /\ stderr' # <<>>
        /\ Last(stderr') = NL
        /\ IF i + 1 = Len(parsed_args) \/ parsed_args[i + 2] = <<>>
           THEN Contains(stderr', <<"NO COLOR GIVEN">>)
           ELSE Contains(stderr', <<"'">> \o parsed_args[i + 2] \o <<"'">>) ]_vars

C3_Witness ==
    /\ pc = "done"
    /\ argv = <<a_b, a_HELLO_WORLD, a_color, a_HELLO_WORLD>>
    /\ status = 1
    /\ stdout = <<>>
    /\ Contains(stderr, <<"'">> \o a_HELLO_WORLD \o <<"'">>)

(***************************************************************************)
(* C4                                                                      *)
(***************************************************************************)
AsciiDigits(d) == d # <<>> /\ \A k \in 1..Len(d) : IsDigit(d[k])

\* a finished run "-c d" or "-g d" on a string d of decimal digits
DigitRun ==
    /\ pc = "done"
    /\ Len(argv) = 2
    /\ argv[1] \in {a_c, a_g}
    /\ AsciiDigits(argv[2])

ExtendedBase == IF argv[1] = a_c THEN <<"3", "8">> ELSE <<"4", "8">>

\* C4 as stated: a string of 1 to 3 digits with value n in 0..255 resolves to
\* "38;5;<n>" (foreground) or "48;5;<n>" (background), <n> being the value,
\* and every digit string denoting 256 or more is invalid.
C4_AsStated ==
    DigitRun =>
        LET d == argv[2]
            n == DigitsValue(d, 10)
        IN  /\ (Len(d) <= 3 /\ n <= 255) =>
                   color = ExtendedBase \o <<";", "5", ";">> \o str(n)
            /\ n >= 256 => color = <<>>

\* C4, amended: a string d of 1 to 3 ASCII digits with value in 0..255
\* resolves to "38;5;" or "48;5;" followed by d itself, leading zeros kept
\* (so by the value when d has none); a digit string denoting 256 or more is
\* invalid unless it has exactly six digits, and then it is read as a hex
\* colour "38;2;r;g;b" or "48;2;r;g;b".
C4_EightBit ==
    DigitRun =>
        LET d == argv[2]
            n == DigitsValue(d, 10)
            byte(k) == 16 * DigitValue(d[2 * k - 1]) + DigitValue(d[2 * k])
        IN  /\ (Len(d) <= 3 /\ n <= 255) =>
                   /\ color = ExtendedBase \o <<";", "5", ";">> \o d
                   /\ status = 0
            /\ (Len(d) <= 3 /\ n <= 255 /\ (Len(d) = 1 \/ d[1] # "0")) =>
                   color = ExtendedBase \o <<";", "5", ";">> \o str(n)
            /\ (n >= 256 /\ Len(d) # 6) => (color = <<>> /\ status = 1)
            /\ (n >= 256 /\ Len(d) = 6) =>
                   /\ color = ExtendedBase \o <<";", "2", ";">> \o str(byte(1))
                                \o <<";">> \o str(byte(2)) \o <<";">> \o str(byte(3))
                   /\ status = 0

C4_Witness ==
    /\ pc = "done"
    /\ argv = <<a_g, a_007>>
    /\ color = <<"4", "8", ";", "5", ";", "0", "0", "7">>
    /\ status = 0

(***************************************************************************)
(* C5                                                                      *)
(***************************************************************************)
\* a raw argument that is an option or a group of option letters
Listed(arg) ==
    \/ arg \in OptionTokens
    \/ /\ IsBundle(arg)
       /\ \A k \in 2..Len(arg) : <<"-", arg[k]>> \in OptionTokens

\* the positions of the raw arguments taken as colour values, in a run that
\* ends by printing the buffer (there every value is an accepted colour, so a
\* whole raw argument that is no bundle)
RECURSIVE RawValues(_, _)
RawValues(raw, k) ==
    IF k > Len(raw) THEN {}
    ELSE IF IsBundle(raw[k])
    THEN LET n == Cardinality({ j \in 2..Len(raw[k]) : raw[k][j] \in {"c", "g"} })
         IN  ((k + 1)..(k + n)) \cup RawValues(raw, k + n + 1)
    ELSE IF raw[k] \in {a_color, a_background}
    THEN {k + 1} \cup RawValues(raw, k + 2)
    ELSE RawValues(raw, k + 1)

\* C5 as stated: every raw argument that is not a listed option and is not
\* taken as a colour value appears in the output unchanged and contiguous,
\* groups of unrecognised short letters included.
C5_AsStated ==
    Printed =>
        \A k \in 1..Len(argv) :
            (~Listed(argv[k]) /\ k \notin RawValues(argv, 1)) =>
                Contains(stdout, argv[k])

\* C5, amended: every token of the expanded list that is not a listed option
\* and is not taken as a colour value is literal text: when it is processed
\* its characters (after the one leading backslash of C6, if any) are appended
\* to the buffer unchanged and contiguous, followed by a fresh escape prefix,
\* and the run goes on.  An argument that starts with "--" is one such token
\* ("--this-is-not-an-option" is printed as it is), but a single-dash group of
\* unrecognised letters is split first, so "-xy" is emitted as the two
\* literals "-x" and "-y" and the output reads "-x-y", not "-xy".
C5_LiteralTokens ==
    /\ [][ ( /\ pc = "loop"
             /\ i < Len(parsed_args)
             /\ parsed_args[i + 1] \notin OptionTokens
             /\ (parsed_args[i + 1] = <<>> \/ parsed_args[i + 1][1] # BS) ) =>
           /\ EndsWith(output_string', parsed_args[i + 1] \o <<ESC, "[">>)
           /\ pc' = "loop"
           /\ i' = i + 1
           /\ stderr' = <<>> ]_vars
    /\ [](Printed =>
           /\ argv = <<a_eb, a_xy>> =>
                  stdout = <<ESC, "[", "1", "m", "-", "x", "-", "y", ESC, "[", "m", NL>>
           /\ argv = <<a_eb, a_not_an_option>> =>
                  stdout = <<ESC, "[", "1", "m">> \o a_not_an_option
                               \o <<ESC, "[", "m", NL>>
           /\ argv = <<a_xy, a_not_an_option>> =>
                  stdout = <<"-", "x", "-", "y">> \o a_not_an_option
                               \o <<BS, "x", "1", "b", "[", "m", NL>>)

C5_Witness ==
    /\ Printed
    /\ argv = <<a_eb, a_xy>>
    /\ parsed_args = << a_e, a_b, <<"-", "x">>, <<"-", "y">> >>
    /\ stdout = <<ESC, "[", "1", "m", "-", "x", "-", "y", ESC, "[", "m", NL>>

(***************************************************************************)
(* C6                                                                      *)
(***************************************************************************)
\* C6: when a literal token is processed exactly one leading backslash is
\* removed, if there is one, and the rest is kept as it is: "\-E" contributes
\* "-E" and is never taken as the option -E, "\\HELLO" contributes "\HELLO",
\* and a literal without a leading backslash contributes its own text.
C6_OneBackslash ==
    [][ ( /\ pc = "loop"
          /\ i < Len(parsed_args)
          /\ parsed_args[i + 1] \notin OptionTokens ) =>
        LET tok == parsed_args[i + 1]
        IN  /\ tok = a_esc_E => EndsWith(output_string', <<"-", "E", ESC, "[">>)
            /\ tok = a_esc_esc_HELLO =>
                   EndsWith(output_string', <<BS, "H", "E", "L", "L", "O", ESC, "[">>)
            /\ (tok # <<>> /\ tok[1] = BS) =>
                   /\ EndsWith(output_string', Tail(tok) \o <<ESC, "[">>)
                   /\ parsed_args'[i + 1] = Tail(tok)
            /\ (tok = <<>> \/ tok[1] # BS) =>
                   /\ EndsWith(output_string', tok \o <<ESC, "[">>)
                   /\ parsed_args'[i + 1] = tok
            /\ escape' = escape
            /\ newline' = newline ]_vars

C6_Witness ==
    /\ pc = "loop"
    /\ argv = <<a_esc_E, a_esc_esc_HELLO>>
    /\ i = 2
    /\ parsed_args = << <<"-", "E">>, <<BS, "H", "E", "L", "L", "O">> >>
    /\ output_string = <<"-", "E", BS, "H", "E", "L", "L", "O", ESC, "[">>
    /\ escape = FALSE

(***************************************************************************)
(* C7                                                                      *)
(***************************************************************************)
\* the last token is evaluated as a literal
LastIsLiteral == Tokens # <<>> /\ Kinds[Len(Tokens)] = "literal"

\* C7 as stated: in escape mode ['-ecg','RED','BLUE','HELLO WORLD'] prints
\* ESC[31;44m, HELLO WORLD, then the reset ESC[0m and the newline; whenever
\* the last token is a literal, what is printed after it is ESC[0m.
C7_AsStated ==
    (Printed /\ escape /\ LastIsLiteral) =>
        /\ EndsWith(stdout, TextOf(Tokens[Len(Tokens)])
                              \o <<ESC, "[", "0", "m">> \o newline)
        /\ argv = <<a_ecg, a_RED, a_BLUE, a_HELLO_WORLD>> =>
               stdout = <<ESC, "[", "3", "1", ";", "4", "4", "m">> \o a_HELLO_WORLD
                            \o <<ESC, "[", "0", "m", NL>>

\* C7, amended: the closing sequence is ESC[m, with no parameter: in escape
\* mode ['-ecg','RED','BLUE','HELLO WORLD'] prints ESC[31;44m, HELLO WORLD,
\* then ESC[m and the newline; whenever the last token is a literal, what is
\* printed after it is ESC[m.
C7_ClosingSequence ==
    (Printed /\ escape /\ LastIsLiteral) =>
        /\ EndsWith(stdout, TextOf(Tokens[Len(Tokens)])
                              \o <<ESC, "[", "m">> \o newline)
        /\ argv = <<a_ecg, a_RED, a_BLUE, a_HELLO_WORLD>> =>
               stdout = <<ESC, "[", "3", "1", ";", "4", "4", "m">> \o a_HELLO_WORLD
                            \o <<ESC, "[", "m", NL>>

C7_Witness ==
    /\ Printed
    /\ escape
    /\ argv = <<a_ecg, a_RED, a_BLUE, a_HELLO_WORLD>>
    /\ stdout = <<ESC, "[", "3", "1", ";", "4", "4", "m">> \o a_HELLO_WORLD
                    \o <<ESC, "[", "m", NL>>

(***************************************************************************)
(* C8                                                                      *)
(***************************************************************************)
\* C8: tokens are evaluated left to right and the first terminating event
\* decides: at a help or version token that is not a colour value the fixed
\* text is printed and the run ends with status 0 at that token, whatever
\* follows, and the buffer is not printed; a colour error met first ends the
\* run with status 1 at the colour flag and no help or version text.
C8_FirstEventDecides ==
    pc = "done" =>
        LET v == Verdict(Tokens, 1)
        IN  /\ v.what = "help" =>
                   stdout = UsageText /\ stderr = <<>> /\ status = 0 /\ i = v.at - 1
            /\ v.what = "version" =>
                   stdout = AboutText /\ stderr = <<>> /\ status = 0 /\ i = v.at - 1
            /\ v.what = "error" =>
                   stdout = <<>> /\ stderr # <<>> /\ status = 1 /\ i = v.at - 1
            /\ v.what = "print" =>
                   /\ stdout \notin {<<>>, UsageText, AboutText}
                   /\ stderr = <<>> /\ status = 0 /\ i = Len(Tokens)

C8_Witness ==
    /\ pc = "done"
    /\ argv = <<a_b, a_HELLO_WORLD, a_h, a_color>>
    /\ stdout = UsageText
    /\ status = 0
    /\ i = 2

(***************************************************************************)
(* C9                                                                      *)
(***************************************************************************)
\* C9: a literal processed when no style code was added since the prefix was
\* opened removes only that empty prefix ESC "[" and nothing emitted before
\* it; so after two consecutive literal tokens L1, L2 the buffer holds the
\* whole text of L1, then the text of L2, then the fresh prefix, whatever L1
\* ends in.
C9_EmptyPrefixOnly ==
    ( /\ pc \in {"loop", "done"}
      /\ i >= 2
      /\ i <= Len(Tokens)
      /\ Kinds[i - 1] = "literal"
      /\ Kinds[i] = "literal" ) =>
        EndsWith(output_string,
                 TextOf(Tokens[i - 1]) \o TextOf(Tokens[i]) \o <<ESC, "[">>)

(***************************************************************************)
(* C10                                                                     *)
(***************************************************************************)
\* a style code was appended since the start or since the last literal
StyledSince ==
    LET marks == { k \in 1..i : Kinds[k] \in {"style", "color", "literal"} }
    IN  /\ marks # {}
        /\ Kinds[CHOOSE k \in marks : \A j \in marks : j <= k] # "literal"

\* C10: whenever a token is about to be processed the buffer is non-empty and
\* ends in the open marker ESC "[" or in a separator ";" that directly follows
\* a numeric parameter; it ends in the open marker exactly when no style code
\* was appended since the start or since the last literal.
C10_PrefixShape ==
    (pc = "loop" /\ i < Len(parsed_args)) =>
        /\ output_string # <<>>
        /\ \/ EndsWith(output_string, <<ESC, "[">>)
           \/ /\ Len(output_string) >= 2
              /\ Last(output_string) = ";"
              /\ IsDigit(output_string[Len(output_string) - 1])
        /\ EndsWith(output_string, <<ESC, "[">>) <=> ~StyledSince

====
